---- MODULE Spec2Model ----
(***************************************************************************)
(* A model of the precipitation transform core of GPEP                     *)
(* (src/src/data_processing.py): the power (Box-Cox) transform, the        *)
(* empirical-CDF quantile-normal transform and its inverse, the monthly    *)
(* gamma transform and its inverse, and the dispatcher data_transformation.*)
(*                                                                         *)
(* Numbers.  An array cell is a record [t, n, d]:                          *)
(*   t = "num" : the real number n/d (d > 0, in lowest terms)              *)
(*   t = "nan" : a missing value (numpy NaN)                               *)
(*   t = "ppf" : the standard normal quantile norm.ppf(n/d), kept symbolic *)
(*               so that norm.cdf undoes norm.ppf and nothing else.        *)
(* Arrays are nested sequences, indexed from 1 where numpy indexes from 0. *)
(* A numpy array is a record [ndim, v]; a pandas DataFrame is a record     *)
(* [index, columns, values, error] with values[row][position of column];   *)
(* error names the exception a setting operation raised, "" when none.     *)
(***************************************************************************)
EXTENDS Integers, Sequences, FiniteSets, TLC

VARIABLES
    pc,            \* position of the caller: "start", then the call made
    fn,            \* the entry point the caller uses in this run
    data,          \* the array handed to the entry point
    times,         \* month (1..12) of each timestamp of the time axis
    monthly_cdfs,  \* empirical CDF tables (pooled: by month; else by station, month)
    gamma_ds,      \* gamma scale parameter by station (or grid cell) and month
    settings,      \* the settings mapping
    method,        \* dispatcher method tag
    mode,          \* dispatcher mode tag
    result,        \* outcome of the (first) call
    restored,      \* outcome of the inverse applied to result.value
    called,        \* component functions invoked, in order
    nearby_stn_ds, \* neighbour ranking: by station, the stations from nearest to farthest
    consulted      \* by station and month, the neighbours whose tables were read, in order

vars == <<pc, fn, data, times, monthly_cdfs, gamma_ds, settings, method, mode,
          result, restored, called, nearby_stn_ds, consulted>>

(***************************************************************************)
(* Bounds of the model                                                     *)
(***************************************************************************)
MaxExponent == 3      \* exponents 1..MaxExponent
MaxRoot == 2          \* inputs of the power transform are (r/2)^e, r in 0..2*MaxRoot
MaxBoxLen == 2        \* length of the arrays given to the power transform
MaxStations == 2      \* stations of a 2-D array
MaxTimes == 2         \* timestamps of the time axis
MaxMonth == 2         \* the time axis lies in the months 1..MaxMonth
MaxValue == 3         \* observed amounts are 0..MaxValue
MaxProbDen == 2       \* z-scores are the quantiles of k/MaxProbDen
MaxScale == 1         \* fitted gamma scales are 1..MaxScale
MaxGrid == 2          \* rows and columns of a 3-D grid
MaxCells == 4         \* cells (rows x cols x time) of a 3-D array
MaxRoundCells == 2    \* cells (stations x time) of a round-trip array
MaxSeriesLen == 3     \* length of the sequences given to create_cdf_df

(***************************************************************************)
(* Real arithmetic on cells (numpy float arithmetic, taken as exact)       *)
(***************************************************************************)
RECURSIVE GCD(_, _)
GCD(a, b) == IF b = 0 THEN a ELSE GCD(b, a % b)

Abs(k) == IF k < 0 THEN -k ELSE k

NaN == [t |-> "nan", n |-> 0, d |-> 1]

Num(n, d) == LET g == GCD(Abs(n), d) IN [t |-> "num", n |-> n \div g, d |-> d \div g]

Whole(k) == [t |-> "num", n |-> k, d |-> 1]

isnan(x) == x.t = "nan"

IsNum(x) == x.t = "num"

LCM(a, b) == (a \div GCD(a, b)) * b

\* a + b; NaN when either is missing
Add(a, b) ==
    IF ~(IsNum(a) /\ IsNum(b)) THEN NaN
    ELSE LET L == LCM(a.d, b.d)
         IN Num(a.n * (L \div a.d) + b.n * (L \div b.d), L)

Neg(a) == IF IsNum(a) THEN [a EXCEPT !.n = -a.n] ELSE NaN

Sub(a, b) == Add(a, Neg(b))

\* a * b, cancelling across before multiplying
Mul(a, b) ==
    IF ~(IsNum(a) /\ IsNum(b)) THEN NaN
    ELSE LET g1 == GCD(Abs(a.n), b.d)
             g2 == GCD(Abs(b.n), a.d)
         IN Num((a.n \div g1) * (b.n \div g2), (a.d \div g2) * (b.d \div g1))

\* a / b; 0/0 is NaN as in numpy (a nonzero number over zero does not arise)
Div(a, b) ==
    IF ~(IsNum(a) /\ IsNum(b)) \/ b.n = 0 THEN NaN
    ELSE Mul(a, IF b.n > 0 THEN [t |-> "num", n |-> b.d, d |-> b.n]
                 ELSE [t |-> "num", n |-> -b.d, d |-> -b.n])

\* a < b; False when either is missing (IEEE comparison with NaN)
Lt(a, b) ==
    /\ IsNum(a) /\ IsNum(b)
    /\ LET L == LCM(a.d, b.d) IN a.n * (L \div a.d) < b.n * (L \div b.d)

Gt(a, b) == Lt(b, a)

Le(a, b) == IsNum(a) /\ IsNum(b) /\ ~Lt(b, a)

\* a ** k for a whole number k >= 0
RECURSIVE Pow(_, _)
Pow(a, k) == IF k = 0 THEN (IF isnan(a) THEN NaN ELSE Whole(1)) ELSE Mul(a, Pow(a, k - 1))

\* The grid of numbers whose e-th power the power transform is given
RootGrid == {Num(r, 2) : r \in 0..(2 * MaxRoot)}

\* a ** (1/e) for a >= 0: the exact real root, defined on the e-th powers of RootGrid
Root(a, e) ==
    IF ~IsNum(a) THEN NaN
    ELSE CHOOSE r \in RootGrid : Pow(r, e) = a

(***************************************************************************)
(* Power transform, lines 13-31                                            *)
(***************************************************************************)
\* one element of boxcox_transform: data[data<0] = 0; (data**(1/texp) - 1)/(1/texp)
boxcox_cell(x, texp) ==
    LET c == IF Lt(x, Whole(0)) THEN Whole(0) ELSE x
    IN Div(Sub(Root(c, texp), Whole(1)), Num(1, texp))

\* boxcox_back_transform without its clamp at -texp
boxcox_back_cell_noclamp(y, texp) == Pow(Add(Div(y, Whole(texp)), Whole(1)), texp)

\* one element of boxcox_back_transform: data[data<-texp] = -texp; (data/texp + 1)**texp
boxcox_back_cell(y, texp) ==
    LET c == IF Lt(y, Whole(-texp)) THEN Whole(-texp) ELSE y
    IN Pow(Add(Div(c, Whole(texp)), Whole(1)), texp)

\* elementwise application over an array of ndim dimensions
RECURSIVE boxcox_map(_, _, _, _)
boxcox_map(v, ndim, texp, back) ==
    IF ndim = 0
    THEN (IF back THEN boxcox_back_cell(v, texp) ELSE boxcox_cell(v, texp))
    ELSE [i \in 1..Len(v) |-> boxcox_map(v[i], ndim - 1, texp, back)]

boxcox_transform(a, texp) == [ndim |-> a.ndim, v |-> boxcox_map(a.v, a.ndim, texp, FALSE)]

boxcox_back_transform(a, texp) == [ndim |-> a.ndim, v |-> boxcox_map(a.v, a.ndim, texp, TRUE)]

(***************************************************************************)
(* Outcomes of a call                                                      *)
(***************************************************************************)
None == [kind |-> "none", value |-> <<>>, error |-> ""]

Return(a) == [kind |-> "return", value |-> a, error |-> ""]

Raise(e) == [kind |-> "raise", value |-> <<>>, error |-> e]

\* sys.exit(): the process ends, nothing is returned
SysExit == [kind |-> "exit", value |-> <<>>, error |-> "SystemExit"]

(***************************************************************************)
(* numpy / pandas array plumbing                                           *)
(***************************************************************************)
Range(k) == [i \in 1..k |-> i]

\* a.T of a 2-D array given as a sequence of rows of width w
Transpose(rows, w) == [j \in 1..w |-> [i \in 1..Len(rows) |-> rows[i][j]]]

\* width of a 2-D array (0 when it has no rows)
Width(rows) == IF Len(rows) = 0 THEN 0 ELSE Len(rows[1])

\* pd.DataFrame(values, index=index): columns are labelled 1..width
DataFrame(values, index) ==
    [index |-> index, columns |-> Range(Width(values)), values |-> values, error |-> ""]

\* pd.DataFrame(index=index, columns=columns): every cell missing
EmptyFrame(index, columns) ==
    [index |-> index, columns |-> columns, error |-> "",
     values |-> [r \in 1..Len(index) |-> [c \in 1..Len(columns) |-> NaN]]]

HasColumn(frame, col) == \E c \in 1..Len(frame.columns) : frame.columns[c] = col

ColPos(frame, col) == CHOOSE c \in 1..Len(frame.columns) : frame.columns[c] = col

\* positions of the rows whose timestamp lies in the month: index.month == month
RowsOfMonth(index, month) == SelectSeq(Range(Len(index)), LAMBDA r : index[r] = month)

\* position of row r in the row selection rows
RowRank(rows, r) == CHOOSE k \in 1..Len(rows) : rows[k] = r

InRows(rows, r) == \E k \in 1..Len(rows) : rows[k] = r

\* the same 2-D array of cells, held as a tuple of tuples
Rows(v) == [r \in 1..Len(v) |-> v[r] \o <<>>] \o <<>>

\* setting with enlargement: a column label that is not there yet is appended, all
\* missing, whether or not any row is selected
WithColumn(frame, col) ==
    IF HasColumn(frame, col) THEN frame
    ELSE [frame EXCEPT !.columns = Append(@, col),
                       !.values = Rows([r \in 1..Len(frame.index) |-> Append(@[r], NaN)])]

\* frame.loc[rows, col] = vals, vals a 1-D array aligned with rows
LocSetColumn(frame, rows, col, vals) ==
    LET f == WithColumn(frame, col)
        c == ColPos(f, col)
    IN [f EXCEPT !.values = Rows([r \in 1..Len(f.index) |->
            IF InRows(rows, r) THEN [@[r] EXCEPT ![c] = vals[RowRank(rows, r)]] ELSE @[r]])]

\* frame.loc[rows, :] = block, block a 2-D array (selected rows x columns)
LocSetRows(frame, rows, block) ==
    [frame EXCEPT !.values = Rows([r \in 1..Len(frame.index) |->
        IF InRows(rows, r) THEN block[RowRank(rows, r)] ELSE @[r]])]

\* np.nan_to_num(a, nan=fill) on one element
nan_to_num(x, fill) == IF isnan(x) THEN fill ELSE x

(***************************************************************************)
(* Empirical CDF tables, lines 60-65                                       *)
(***************************************************************************)
\* np.sort of a 1-D array of numbers
RECURSIVE Insert(_, _)
Insert(sorted, x) ==
    IF Len(sorted) = 0 THEN <<x>>
    ELSE IF Lt(x, Head(sorted)) THEN <<x>> \o sorted
    ELSE <<Head(sorted)>> \o Insert(Tail(sorted), x)

\* the sequence left in the order of observation
Unsorted(s) == s

RECURSIVE Sort(_)
Sort(s) == IF Len(s) = 0 THEN <<>> ELSE Insert(Sort(Tail(s)), Head(s))

\* a table builder that keeps the zeros: "data >= 0" in place of "data > 0"
create_cdf_df_nonneg(obs) ==
    LET valid_data == SelectSeq(obs, LAMBDA x : ~Lt(x, Whole(0)) /\ x.t = "num")
        sorted_data == Sort(valid_data)
        len == Len(sorted_data)
    IN [isNone |-> FALSE,
        Value |-> sorted_data,
        CDF |-> [k \in 1..len |-> Num(k, len)]]

\* create_cdf_df: the positive values sorted ascending, with rank/n
create_cdf_df(obs) ==
    LET valid_data == SelectSeq(obs, LAMBDA x : Gt(x, Whole(0)))
        sorted_data == Sort(valid_data)
        len == Len(sorted_data)
    IN [isNone |-> FALSE,
        Value |-> sorted_data,
        CDF |-> [k \in 1..len |-> Num(k, len)]]

\* a key the pooled mapping does not hold: monthly_cdfs.get(month) is None
NoTable == [isNone |-> TRUE, Value |-> <<>>, CDF |-> <<>>]

\* "empirical_cdf is not None and not empirical_cdf.empty"
Usable(cdf) == ~cdf.isNone /\ Len(cdf.Value) > 0

(***************************************************************************)
(* scipy: interp1d, norm.ppf, norm.cdf                                     *)
(***************************************************************************)
\* cdf_interp without the bounds check: numpy.interp alone, which holds the end values
\* outside the table
cdf_interp_unbounded(cdf, x) ==
    LET xs == cdf.Value
        ys == cdf.CDF
        len == Len(xs)
    IN IF ~IsNum(x) THEN NaN
       ELSE IF Lt(x, xs[1]) THEN ys[1]
       ELSE IF ~Lt(x, xs[len]) THEN ys[len]
       ELSE LET j == CHOOSE i \in 1..(len - 1) : Le(xs[i], x) /\ Lt(x, xs[i + 1])
            IN Add(ys[j], Mul(Sub(x, xs[j]),
                              Div(Sub(ys[j + 1], ys[j]), Sub(xs[j + 1], xs[j]))))

\* interp1d(Value, CDF, bounds_error=False)(x): linear interpolation inside the table's
\* value range, NaN outside it (no extrapolation).  On tied values numpy.interp uses
\* the segment that starts at the last of them.
cdf_interp(cdf, x) ==
    LET xs == cdf.Value
        ys == cdf.CDF
        len == Len(xs)
    IN IF ~IsNum(x) THEN NaN
       ELSE IF Lt(x, xs[1]) \/ Gt(x, xs[len]) THEN NaN
       ELSE IF x = xs[len] THEN ys[len]
       ELSE LET j == CHOOSE i \in 1..(len - 1) : Le(xs[i], x) /\ Lt(x, xs[i + 1])
            IN Add(ys[j], Mul(Sub(x, xs[j]),
                              Div(Sub(ys[j + 1], ys[j]), Sub(xs[j + 1], xs[j]))))

\* value_interp with kind='previous' in place of 'linear': the value of the last row
\* whose probability is not above p
value_interp_previous(cdf, p) ==
    LET below == {i \in 1..Len(cdf.CDF) : Le(cdf.CDF[i], p)}
    IN IF ~IsNum(p) \/ below = {} THEN NaN
       ELSE cdf.Value[CHOOSE i \in below : \A k \in below : k <= i]

\* interp1d(CDF, Value, kind='linear', bounds_error=False, fill_value='extrapolate')(p):
\* the segment is found by searchsorted clipped to the table, so the first and the last
\* segment are extended beyond the table; one row gives slope 0/0, hence NaN
value_interp(cdf, p) ==
    LET xs == cdf.CDF
        ys == cdf.Value
        len == Len(xs)
        below == Cardinality({i \in 1..len : Lt(xs[i], p)})
        idx == IF below + 1 < 2 THEN 2 ELSE IF below + 1 > len THEN len ELSE below + 1
    IN IF ~IsNum(p) \/ len < 2 THEN NaN
       ELSE LET slope == Div(Sub(ys[idx], ys[idx - 1]), Sub(xs[idx], xs[idx - 1]))
            IN Add(Mul(slope, Sub(p, xs[idx - 1])), ys[idx - 1])

\* the upper clip of the forward probabilities, 0.99999
ClipHigh == Num(99999, 100000)

\* np.clip(p, 0, 0.99999)
clip(p) ==
    IF ~IsNum(p) THEN NaN
    ELSE IF Lt(p, Whole(0)) THEN Whole(0)
    ELSE IF Gt(p, ClipHigh) THEN ClipHigh
    ELSE p

\* norm.ppf(p), symbolic
norm_ppf(p) == IF IsNum(p) THEN [t |-> "ppf", n |-> p.n, d |-> p.d] ELSE NaN

\* norm.cdf(-4) = 0.0000317 and norm.cdf(0) = 0.5: the literal z-scores of the model
NormCdfLiteral(z) == IF z = Whole(-4) THEN Num(317, 10000000) ELSE Num(1, 2)

\* norm.cdf(z): the probability a symbolic quantile came from, or the tabulated value
norm_cdf(z) ==
    IF z.t = "ppf" THEN [t |-> "num", n |-> z.n, d |-> z.d]
    ELSE IF z.t = "nan" THEN NaN
    ELSE NormCdfLiteral(z)

(***************************************************************************)
(* normal_quantile_transform, lines 138-188                                *)
(***************************************************************************)
\* number of calendar months looped over: range(1, 13)
NumMonths == 12

\* z-score of one positive value under a usable table (lines 163-165)
nqt_cell(cdf, x) == norm_ppf(clip(cdf_interp(cdf, x)))

\* loop body for one month, pooled (station is None): lines 156-173.  month_data is the
\* month's rows with every value that is not > 0 masked to NaN
nqt_step_pooled(df, td, cdfs, month) ==
    LET rows == RowsOfMonth(df.index, month)
        month_data == [k \in 1..Len(rows) |-> [c \in 1..Len(df.columns) |->
                          IF Gt(df.values[rows[k]][c], Whole(0))
                          THEN df.values[rows[k]][c] ELSE NaN]]
        empirical_cdf == cdfs[month]
        z_scores == [k \in 1..Len(rows) |-> [c \in 1..Len(df.columns) |->
                          IF Usable(empirical_cdf)
                          THEN nqt_cell(empirical_cdf, month_data[k][c]) ELSE NaN]]
    IN LocSetRows(td, rows, z_scores)

\* loop body for one month and one station, per-station tables: lines 156-175.
\* month_data keeps only the rows of the month whose value is > 0
nqt_step_station(df, td, cdfs, month, station) ==
    LET c == ColPos(df, station)
        rows == SelectSeq(RowsOfMonth(df.index, month),
                          LAMBDA r : Gt(df.values[r][c], Whole(0)))
        empirical_cdf == cdfs[station][month]
        z_scores == [k \in 1..Len(rows) |->
                        IF Usable(empirical_cdf)
                        THEN nqt_cell(empirical_cdf, df.values[rows[k]][c]) ELSE NaN]
    IN LocSetColumn(td, rows, station, z_scores)

\* for month in range(1, 13): for station in df.columns (or [None])
RECURSIVE nqt_loop(_, _, _, _, _, _)
nqt_loop(df, td, cdfs, pooled, month, s) ==
    IF month > NumMonths THEN td
    ELSE IF ~pooled /\ s > Len(df.columns) THEN nqt_loop(df, td, cdfs, pooled, month + 1, 1)
    ELSE LET next == IF pooled THEN nqt_step_pooled(df, td, cdfs, month)
                     ELSE nqt_step_station(df, td, cdfs, month, df.columns[s])
         IN IF next.error # "" THEN next    \* an exception ends the loop
            ELSE IF pooled THEN nqt_loop(df, next, cdfs, pooled, month + 1, 1)
            ELSE nqt_loop(df, next, cdfs, pooled, month, s + 1)

\* nan_columns with any() in place of all()
nan_columns_any(df) ==
    {df.columns[c] : c \in {k \in 1..Len(df.columns) :
                              \E r \in 1..Len(df.index) : isnan(df.values[r][k])}}

\* stations whose every value is missing: df[col].isna().all()
nan_columns(df) ==
    {df.columns[c] : c \in {k \in 1..Len(df.columns) :
                              \A r \in 1..Len(df.index) : isnan(df.values[r][k])}}

\* lines 178-186 as left by the last month: fill NaN with min_z_value, then set, by
\* position, the columns of the stations found all-missing back to NaN
nqt_fill(df, td, min_z_value) ==
    LET filled == [r \in 1..Len(td.index) |-> [c \in 1..Len(td.columns) |->
                      nan_to_num(td.values[r][c], min_z_value)]]
        nanpos == {c \in 1..Len(df.columns) : df.columns[c] \in nan_columns(df)}
    IN IF \E c \in nanpos : c > Len(td.columns)
       THEN Raise("IndexError")
       ELSE Return([ndim |-> 2,
                    v |-> [r \in 1..Len(td.index) |-> [c \in 1..Len(td.columns) |->
                             IF c \in nanpos THEN NaN ELSE filled[r][c]]]])

\* normal_quantile_transform(data, times, monthly_cdfs, settings); data is 2-D,
\* stations x time; the result is time x stations
normal_quantile_transform(a, index, cdfs, sett) ==
    LET df == DataFrame(Transpose(a.v, Len(index)), index)
        transformed_data == EmptyFrame(index, IF sett.pooled THEN df.columns ELSE <<>>)
        td == nqt_loop(df, transformed_data, cdfs, sett.pooled, 1, 1)
    IN nqt_fill(df, td, sett.min_z_value)

(***************************************************************************)
(* inverse_normal_quantile_transform, lines 190-251                        *)
(***************************************************************************)
\* data.reshape(-1, T) of a 3-D array rows x cols x time: row (r-1)*cols + c
Flatten3(v) ==
    LET R == Len(v)
        C == Width(v)
    IN [k \in 1..(R * C) |-> v[((k - 1) \div C) + 1][((k - 1) % C) + 1]]

\* a.reshape(rows, cols, T) of a 2-D array of rows*cols rows
Reshape3(flat, R, C) == [r \in 1..R |-> [c \in 1..C |-> flat[(r - 1) * C + c]]]

\* lines 220-230 on one z-score: back to a probability, through the table with
\* extrapolation, values below min_est_value to NaN, NaN to zero
inv_cell(cdf, z, min_est_value) ==
    LET original == value_interp(cdf, norm_cdf(z))
        kept == IF Lt(original, min_est_value) THEN NaN ELSE original
    IN nan_to_num(kept, Whole(0))

\* frame.loc[rows, :] = vec with vec 1-D: numpy broadcasts vec along the columns, so
\* its length must be the number of columns (or 1); an empty row selection sets nothing
LocSetRowsVector(frame, rows, vec) ==
    IF Len(rows) = 0 THEN frame
    ELSE IF Len(vec) = 1
    THEN LocSetRows(frame, rows, [k \in 1..Len(rows) |-> [c \in 1..Len(frame.columns) |-> vec[1]]])
    ELSE IF Len(vec) = Len(frame.columns)
    THEN LocSetRows(frame, rows, [k \in 1..Len(rows) |-> vec])
    ELSE [frame EXCEPT !.error = "ValueError"]

\* loop body for one month, pooled: lines 212-238
inv_step_pooled(tdf, btd, cdfs, month, min_est_value) ==
    LET rows == RowsOfMonth(tdf.index, month)
        empirical_cdf == cdfs[month]
    IN IF Usable(empirical_cdf)
       THEN LocSetRows(btd, rows,
                [k \in 1..Len(rows) |-> [c \in 1..Len(tdf.columns) |->
                    inv_cell(empirical_cdf, tdf.values[rows[k]][c], min_est_value)]])
       ELSE LocSetRowsVector(btd, rows, [k \in 1..Len(rows) |-> Whole(0)])

\* loop body for one month and one station, per-station tables: lines 212-240
inv_step_station(tdf, btd, cdfs, month, station, min_est_value) ==
    LET rows == RowsOfMonth(tdf.index, month)
        c == ColPos(tdf, station)
        empirical_cdf == cdfs[station][month]
    IN LocSetColumn(btd, rows, station,
           [k \in 1..Len(rows) |->
               IF Usable(empirical_cdf)
               THEN inv_cell(empirical_cdf, tdf.values[rows[k]][c], min_est_value)
               ELSE Whole(0)])

RECURSIVE inv_loop(_, _, _, _, _, _, _)
inv_loop(tdf, btd, cdfs, pooled, month, s, min_est_value) ==
    IF month > NumMonths THEN btd
    ELSE IF ~pooled /\ s > Len(tdf.columns)
    THEN inv_loop(tdf, btd, cdfs, pooled, month + 1, 1, min_est_value)
    ELSE LET next == IF pooled
                     THEN inv_step_pooled(tdf, btd, cdfs, month, min_est_value)
                     ELSE inv_step_station(tdf, btd, cdfs, month, tdf.columns[s],
                                           min_est_value)
         IN IF next.error # "" THEN next    \* an exception ends the loop
            ELSE IF pooled THEN inv_loop(tdf, next, cdfs, pooled, month + 1, 1, min_est_value)
            ELSE inv_loop(tdf, next, cdfs, pooled, month, s + 1, min_est_value)

\* inverse_normal_quantile_transform(data, time, monthly_cdfs, settings).  With ndim
\* other than 2 or 3 neither branch of lines 200-206 binds transformed_data, and its
\* first use (line 209 or 212) raises UnboundLocalError
inverse_normal_quantile_transform(a, index, cdfs, sett) ==
    IF a.ndim \notin {2, 3} THEN Raise("UnboundLocalError")
    ELSE
    LET flat == IF a.ndim = 3 THEN Flatten3(a.v) ELSE a.v
        tdf == DataFrame(Transpose(flat, Len(index)), index)
        back0 == EmptyFrame(tdf.index, tdf.columns)
        btd == inv_loop(tdf, back0, cdfs, sett.pooled, 1, 1, sett.min_est_value)
        arr == btd.values
    IN IF btd.error # "" THEN Raise(btd.error)
       ELSE IF a.ndim = 3
       THEN Return([ndim |-> 3,
                    v |-> Reshape3(Transpose(arr, Len(tdf.columns)), Len(a.v), Width(a.v))])
       ELSE Return([ndim |-> 2, v |-> arr])

(***************************************************************************)
(* gamma_transform and gamma_back_transform, lines 253-378                 *)
(*                                                                         *)
(* gamma_ds[station][month] is the scale of the fitted distribution, 0 for *)
(* a station-month without a fit (NaN parameters).  The gamma CDF is       *)
(* transcendental; the model puts F(x) = x / (x + scale) in its place,     *)
(* which shares what the code relies on: strictly increasing from 0 to 1   *)
(* on x > 0, inverted by the quantile function, NaN for NaN parameters.    *)
(***************************************************************************)
\* gamma.cdf(x, a, loc=0, scale)
gamma_cdf(x, scale) ==
    IF scale = 0 THEN NaN ELSE Div(x, Add(x, Whole(scale)))

\* gamma.ppf(p, a, loc=0, scale), for p < 1
gamma_ppf(p, scale) ==
    IF scale = 0 THEN NaN ELSE Div(Mul(Whole(scale), p), Sub(Whole(1), p))

\* loop body for one month and one station: lines 271-288
gamma_step(df, td, gds, month, station) ==
    LET c == ColPos(df, station)
        rows == SelectSeq(RowsOfMonth(df.index, month),
                          LAMBDA r : Gt(df.values[r][c], Whole(0)))
        z_scores == [k \in 1..Len(rows) |->
                        norm_ppf(gamma_cdf(df.values[rows[k]][c], gds[station][month]))]
    IN LocSetColumn(td, rows, station, z_scores)

RECURSIVE gamma_loop(_, _, _, _, _)
gamma_loop(df, td, gds, month, s) ==
    IF month > NumMonths THEN td
    ELSE IF s > Len(df.columns) THEN gamma_loop(df, td, gds, month + 1, 1)
    ELSE LET next == gamma_step(df, td, gds, month, df.columns[s])
         IN IF next.error # "" THEN next
            ELSE gamma_loop(df, next, gds, month, s + 1)

\* gamma_transform(data, times, settings, gamma_stations_ds): lines 291-297 fill every
\* NaN of the result with min_z_value and nothing is set back to NaN afterwards
gamma_transform(a, index, sett, gds) ==
    LET df == DataFrame(Transpose(a.v, Len(index)), index)
        td == gamma_loop(df, EmptyFrame(df.index, df.columns), gds, 1, 1)
    IN Return([ndim |-> 2,
               v |-> [r \in 1..Len(td.index) |-> [c \in 1..Len(td.columns) |->
                        nan_to_num(td.values[r][c], sett.min_z_value)]]])

\* lines 336-340 (2-D) or 349-356 (3-D, probabilities clipped), then 358-362
gamma_back_cell(z, scale, min_est_value, clipped) ==
    LET cum_probs == IF clipped THEN clip(norm_cdf(z)) ELSE norm_cdf(z)
        original == gamma_ppf(cum_probs, scale)
        kept == IF Lt(original, min_est_value) THEN NaN ELSE original
    IN nan_to_num(kept, Whole(0))

\* loop body for one month; the only "station" looped over is the whole column index
\* (2-D) or [None] (3-D), so a month is handled as one block: lines 321-367
gamma_back_step(tdf, btd, gds, month, min_est_value, clipped) ==
    LET rows == RowsOfMonth(tdf.index, month)
    IN IF Len(rows) = 0 \/ Len(tdf.columns) = 0 THEN btd
       ELSE LocSetRows(btd, rows,
                [k \in 1..Len(rows) |-> [c \in 1..Len(tdf.columns) |->
                    gamma_back_cell(tdf.values[rows[k]][c], gds[c][month],
                                    min_est_value, clipped)]])

RECURSIVE gamma_back_loop(_, _, _, _, _, _)
gamma_back_loop(tdf, btd, gds, month, min_est_value, clipped) ==
    IF month > NumMonths THEN btd
    ELSE LET next == gamma_back_step(tdf, btd, gds, month, min_est_value, clipped)
         IN IF next.error # "" THEN next
            ELSE gamma_back_loop(tdf, next, gds, month + 1, min_est_value, clipped)

\* gamma_back_transform(data, time, settings, gamma_station_ds, gamma_gridded_ds); gds
\* is the parameter set for the data's kind (by station, or by flattened grid cell).
\* With ndim other than 2 or 3 transformed_data is never bound and line 324 raises
gamma_back_transform(a, index, sett, gds) ==
    IF a.ndim \notin {2, 3} THEN Raise("UnboundLocalError")
    ELSE
    LET flat == IF a.ndim = 3 THEN Flatten3(a.v) ELSE a.v
        tdf == DataFrame(Transpose(flat, Len(index)), index)
        btd == gamma_back_loop(tdf, EmptyFrame(tdf.index, tdf.columns), gds, 1,
                               sett.min_est_value, a.ndim = 3)
        arr == btd.values
    IN IF a.ndim = 3
       THEN Return([ndim |-> 3,
                    v |-> Reshape3(Transpose(arr, Len(tdf.columns)), Len(a.v), Width(a.v))])
       ELSE Return([ndim |-> 2, v |-> arr])

(***************************************************************************)
(* data_transformation, lines 380-412                                      *)
(***************************************************************************)
\* data.T applied to what a component returned (2-D), a raise passed on
TransposeResult(r) ==
    IF r.kind # "return" THEN r
    ELSE Return([ndim |-> 2, v |-> Transpose(r.value.v, Width(r.value.v))])

\* "if data.ndim == 2: data = data.T"
TransposeIf2D(r) ==
    IF r.kind = "return" /\ r.value.ndim = 2 THEN TransposeResult(r) ELSE r

\* what a call of the dispatcher did: the component calls it made and its outcome
Did(calls, outcome) == [calls |-> calls, outcome |-> outcome]

\* a dispatcher without any branch: it hands the data back whatever the tags
data_transformation_passthrough(a, mth, sett, md, index, cdfs, gds) == Did(<<>>, Return(a))

\* data_transformation(data, method, settings, mode, times, cdfs, gamma_stations_ds,
\* gamma_gridded_ds); gds is the gamma parameter set that fits the data's kind
data_transformation(a, mth, sett, md, index, cdfs, gds) ==
    IF mth = "boxcox" THEN
        IF md = "transform"
        THEN Did(<<"boxcox_transform">>, Return(boxcox_transform(a, sett.exponent)))
        ELSE IF md = "back_transform"
        THEN Did(<<"boxcox_back_transform">>,
                 Return(boxcox_back_transform(a, sett.exponent)))
        ELSE Did(<<>>, SysExit)
    ELSE IF mth = "ecdf" THEN
        IF md = "transform"
        THEN Did(<<"normal_quantile_transform">>,
                 TransposeResult(normal_quantile_transform(a, index, cdfs, sett)))
        ELSE IF md = "back_transform"
        THEN Did(<<"inverse_normal_quantile_transform">>,
                 TransposeIf2D(inverse_normal_quantile_transform(a, index, cdfs, sett)))
        ELSE Did(<<>>, SysExit)
    ELSE IF mth = "gamma_monthly" THEN
        IF md = "transform"
        THEN Did(<<"gamma_transform">>,
                 TransposeResult(gamma_transform(a, index, sett, gds)))
        ELSE IF md = "back_transform"
        THEN Did(<<"gamma_back_transform">>,
                 TransposeIf2D(gamma_back_transform(a, index, sett, gds)))
        ELSE Did(<<>>, SysExit)
    ELSE Did(<<>>, SysExit)

(***************************************************************************)
(* Building the tables: interpolate_with_noise, calculate_monthly_cdfs,    *)
(* lines 48-58 and 112-136                                                 *)
(***************************************************************************)
\* noise_level=1e-6
NoiseLevel == Num(1, 1000000)

\* the values np.random.uniform(-noise_level, noise_level) takes in the model: both
\* ends of the interval and its middle
NoiseSteps == {Neg(NoiseLevel), Whole(0), NoiseLevel}

\* the rows of a table as records, and a table of such rows
RowsOf(cdf) == [k \in 1..Len(cdf.Value) |-> [Value |-> cdf.Value[k], CDF |-> cdf.CDF[k]]]

TableOfRows(rows) ==
    [isNone |-> FALSE,
     Value |-> [k \in 1..Len(rows) |-> rows[k].Value],
     CDF |-> [k \in 1..Len(rows) |-> rows[k].CDF]]

\* cdf.sort_values(by='Value'): whole rows are ordered by Value, each keeping its CDF;
\* rows of equal Value keep their order
RECURSIVE InsertRow(_, _)
InsertRow(sorted, row) ==
    IF Len(sorted) = 0 THEN <<row>>
    ELSE IF Lt(Head(sorted).Value, row.Value) \/ Head(sorted).Value = row.Value
    THEN <<Head(sorted)>> \o InsertRow(Tail(sorted), row)
    ELSE <<row>> \o sorted

RECURSIVE sort_values(_, _)
sort_values(rows, k) ==
    IF k = 0 THEN <<>> ELSE InsertRow(sort_values(rows, k - 1), rows[k])

\* lines 52-56 for one table: noise[k] is added to the Value of row k, then the rows
\* are sorted by Value
noise_table(cdf, noise) ==
    LET rows == [k \in 1..Len(cdf.Value) |->
                    [Value |-> Add(cdf.Value[k], noise[k]), CDF |-> cdf.CDF[k]]]
    IN TableOfRows(sort_values(rows, Len(rows)))

\* the observations of station s in a month, in time order (missing ones included)
MonthSeries(a, index, s, month) ==
    LET rows == RowsOfMonth(index, month)
    IN [k \in 1..Len(rows) |-> a.v[s][rows[k]]]

\* df[df.index.month == month].values.flatten(): the month's rows, station by station
MonthFlat(a, index, month) ==
    LET rows == RowsOfMonth(index, month)
        n == Len(a.v)
    IN [k \in 1..(Len(rows) * n) |-> a.v[((k - 1) % n) + 1][rows[((k - 1) \div n) + 1]]]

\* the noise drawn for the rows of the table of station s and a month: nz gives a draw
\* for every cell of the data, and the k-th row takes the draw of the k-th positive
\* cell of the month
NoiseFor(a, index, nz, s, month) ==
    LET rows == SelectSeq(RowsOfMonth(index, month), LAMBDA r : Gt(a.v[s][r], Whole(0)))
    IN [k \in 1..Len(rows) |-> nz[s][rows[k]]]

\* interpolate_with_noise(cdfs) over the per-station tables of the data
interpolate_with_noise(cdfs, a, index, nz) ==
    [s \in 1..Len(cdfs) |-> [month \in 1..NumMonths |->
        noise_table(cdfs[s][month], NoiseFor(a, index, nz, s, month))]]

(***************************************************************************)
(* add_nearby_stations_to_cdfs, lines 67-110                               *)
(***************************************************************************)
\* "iteration < 5": the most neighbours the loop reads for one station and month
MaxNeighbours == 5

\* lines 72-76: the stations with at least one non-missing value, in index order
stations_with_values(a) ==
    SelectSeq(Range(Len(a.v)), LAMBDA s : \E t \in 1..Len(a.v[s]) : ~isnan(a.v[s][t]))

\* the while loop of lines 94-106 with "iteration < 6": it reads a sixth neighbour
RECURSIVE pool_loop_six(_, _, _, _, _, _, _, _, _)
pool_loop_six(cdfs, nearby_stations, stn_index, i, min_obs, pool, num_obs, iteration, log) ==
    IF ~(num_obs < min_obs /\ iteration < MaxNeighbours + 1)
    THEN [pool |-> pool, consulted |-> log, error |-> ""]
    ELSE IF iteration + 1 > Len(nearby_stations[stn_index])
    THEN [pool |-> pool, consulted |-> log, error |-> "IndexError"]
    ELSE IF nearby_stations[stn_index][iteration + 1] \notin DOMAIN cdfs
    THEN [pool |-> pool, consulted |-> log, error |-> "KeyError"]
    ELSE LET near == nearby_stations[stn_index][iteration + 1]
             station_cdf == (IF iteration = 0 THEN cdfs[stn_index][i].Value ELSE pool)
                                \o cdfs[near][i].Value
         IN pool_loop_six(cdfs, nearby_stations, stn_index, i, min_obs, station_cdf,
                          Len(station_cdf), iteration + 1,
                          Append(log, [stn |-> near, num_obs |-> Len(station_cdf)]))

\* the while loop of lines 94-106 for one station and month.  pool is station_cdf,
\* log the neighbours read so far, each with num_obs after its values were added
\* (line 105); reading past the ranking raises IndexError, a neighbour without tables
\* KeyError
RECURSIVE pool_loop(_, _, _, _, _, _, _, _, _)
pool_loop(cdfs, nearby_stations, stn_index, i, min_obs, pool, num_obs, iteration, log) ==
    IF ~(num_obs < min_obs /\ iteration < MaxNeighbours)
    THEN [pool |-> pool, consulted |-> log, error |-> ""]
    ELSE IF iteration + 1 > Len(nearby_stations[stn_index])
    THEN [pool |-> pool, consulted |-> log, error |-> "IndexError"]
    ELSE IF nearby_stations[stn_index][iteration + 1] \notin DOMAIN cdfs
    THEN [pool |-> pool, consulted |-> log, error |-> "KeyError"]
    ELSE LET near == nearby_stations[stn_index][iteration + 1]
             station_cdf == (IF iteration = 0 THEN cdfs[stn_index][i].Value ELSE pool)
                                \o cdfs[near][i].Value
         IN pool_loop(cdfs, nearby_stations, stn_index, i, min_obs, station_cdf,
                      Len(station_cdf), iteration + 1,
                      Append(log, [stn |-> near, num_obs |-> Len(station_cdf)]))

\* lines 83-108 for one station and month, on the mapping as it stands
nearby_step(st, nearby_stations, stn_index, i, min_obs) ==
    LET num_obs == Len(st.cdfs[stn_index][i].Value)
    IN IF ~(num_obs < min_obs) THEN st
       ELSE LET done == pool_loop(st.cdfs, nearby_stations, stn_index, i, min_obs,
                                  <<>>, num_obs, 0, <<>>)
            IN IF done.error # "" THEN [st EXCEPT !.error = done.error]
               ELSE [cdfs |-> [st.cdfs EXCEPT ![stn_index][i] = create_cdf_df(done.pool)],
                     consulted |-> [st.consulted EXCEPT ![stn_index][i] = done.consulted],
                     error |-> ""]

\* for i in range(1,13): for stn_index in stations_with_values
RECURSIVE nearby_loop(_, _, _, _, _, _)
nearby_loop(st, nearby_stations, stations, i, k, min_obs) ==
    IF i > NumMonths THEN st
    ELSE IF k > Len(stations) THEN nearby_loop(st, nearby_stations, stations, i + 1, 1, min_obs)
    ELSE LET next == nearby_step(st, nearby_stations, stations[k], i, min_obs)
         IN IF next.error # "" THEN next
            ELSE nearby_loop(next, nearby_stations, stations, i, k + 1, min_obs)

\* add_nearby_stations_to_cdfs(cdfs, all_station_data_ds, nearby_station_ds, var,
\* min_obs): the mapping it returns, with the neighbours read for each station and month
add_nearby_stations_to_cdfs(cdfs, a, nearby_stations, min_obs) ==
    nearby_loop([cdfs |-> cdfs,
                 consulted |-> [s \in 1..Len(cdfs) |-> [i \in 1..NumMonths |-> <<>>]],
                 error |-> ""],
                nearby_stations, stations_with_values(a), 1, 1, min_obs)

\* nearby_stn_ds=None
NoNearby == <<>>

\* calculate_monthly_cdfs(stn_ds, var_name, settings, nearby_stn_ds); nz is the noise
\* np.random.uniform draws, by cell of the data
calculate_monthly_cdfs(a, index, sett, nearby, nz) ==
    IF sett.pooled
    THEN [cdfs |-> [month \in 1..NumMonths |-> create_cdf_df(MonthFlat(a, index, month))],
          consulted |-> <<>>, error |-> ""]
    ELSE LET built == [s \in 1..Len(a.v) |-> [month \in 1..NumMonths |->
                          create_cdf_df(SelectSeq(MonthSeries(a, index, s, month),
                                                  LAMBDA x : ~isnan(x)))]]
             noised == IF sett.add_noise THEN interpolate_with_noise(built, a, index, nz)
                       ELSE built
         IN IF nearby = NoNearby
            THEN [cdfs |-> noised, consulted |-> <<>>, error |-> ""]
            ELSE add_nearby_stations_to_cdfs(noised, a, nearby, sett.min_num_obs)

(***************************************************************************)
(* Inputs                                                                  *)
(***************************************************************************)
\* settings.get('min_z_value', -4)
MinZDefault == -4

\* settings.get('min_est_value', 0.01)
MinEstDefault == Num(1, 100)

Settings(pooled, e) ==
    [pooled |-> pooled, min_z_value |-> Whole(MinZDefault),
     min_est_value |-> MinEstDefault, exponent |-> e]

\* observations: missing, zero, and the whole amounts 1..MaxValue
ObsValues == {NaN} \cup {Whole(k) : k \in 0..MaxValue}

\* z-scores: missing, the floor -4, and the quantiles of k/MaxProbDen
ZValues == {NaN, Whole(MinZDefault)} \cup {norm_ppf(Num(k, MaxProbDen)) : k \in 1..(MaxProbDen - 1)}

\* 2-D arrays, stations x time
Arrays2(n, T, Cells) == [1..n -> [1..T -> Cells]]

\* 3-D arrays, rows x cols x time
Arrays3(R, C, T, Cells) == [1..R -> [1..C -> [1..T -> Cells]]]

\* time axes of T timestamps in chronological order, by month
TimeAxes(T) == {tm \in [1..T -> 1..MaxMonth] : \A i \in 1..(T - 1) : tm[i] <= tm[i + 1]}

MonthsOf(tm) == {tm[i] : i \in 1..Len(tm)}

\* the table of a stratum without any positive observation
EmptyTable == create_cdf_df(<<>>)

\* pooled tables by month: a month of the time axis has a table of TS or no entry; the
\* other months have no observation, hence an empty table
PooledCdfs(tm, TS) ==
    {[m \in 1..NumMonths |-> IF m \in MonthsOf(tm) THEN f[m] ELSE EmptyTable] :
        f \in [MonthsOf(tm) -> TS \cup {NoTable}]}

\* per-station tables by station (or grid cell) and month
StationCdfs(n, tm, TS) ==
    {[c \in 1..n |-> [m \in 1..NumMonths |->
          IF m \in MonthsOf(tm) THEN f[c][m] ELSE EmptyTable]] :
        f \in [1..n -> [MonthsOf(tm) -> TS]]}

\* gamma scales by station (or grid cell) and month; 0 where nothing was fitted
GammaParams(n, tm) ==
    {[c \in 1..n |-> [m \in 1..NumMonths |-> IF m \in MonthsOf(tm) THEN f[c][m] ELSE 0]] :
        f \in [1..n -> [MonthsOf(tm) -> 0..MaxScale]]}

\* tables of the forward runs: empty, and the table of the observations 1.5 and
\* MaxValue - 0.5, which has whole amounts below it, inside it and above it
FwdTables == {EmptyTable, create_cdf_df(<<Num(3, 2), Num(2 * MaxValue - 1, 2)>>)}

InitWith(f, a, tm, cdfs, gds, sett, mth, md) ==
    /\ pc = "start"
    /\ fn = f
    /\ data = a
    /\ times = tm
    /\ monthly_cdfs = cdfs
    /\ gamma_ds = gds
    /\ settings = sett
    /\ method = mth
    /\ mode = md
    /\ result = None
    /\ restored = None
    /\ called = <<>>
    /\ nearby_stn_ds = <<>>
    /\ consulted = <<>>

(***************************************************************************)
(* Power transform round trip                                              *)
(***************************************************************************)
\* inputs for exponent e: e-th powers of the grid, whole negative numbers down to
\* below -e, and a missing value
BoxInputs(e) ==
    {Pow(r, e) : r \in RootGrid} \cup {Whole(-k) : k \in 1..(MaxExponent + 1)} \cup {NaN}

BoxArrays(e) ==
    UNION {[1..len -> BoxInputs(e)] : len \in 1..MaxBoxLen}

InitBox ==
    \E e \in 1..MaxExponent : \E a \in BoxArrays(e) :
        InitWith("boxcox_transform", [ndim |-> 1, v |-> a], <<>>, <<>>, <<>>,
                 Settings(TRUE, e), "boxcox", "transform")

\* the caller applies boxcox_transform to the data
BoxForward ==
    /\ pc = "start"
    /\ result' = Return(boxcox_transform(data, settings.exponent))
    /\ called' = Append(called, "boxcox_transform")
    /\ pc' = "transformed"
    /\ UNCHANGED <<fn, data, times, monthly_cdfs, gamma_ds, settings, method, mode, restored,
                   nearby_stn_ds, consulted>>

\* the caller applies boxcox_back_transform to the transformed data
BoxBack ==
    /\ pc = "transformed"
    /\ restored' = Return(boxcox_back_transform(result.value, settings.exponent))
    /\ called' = Append(called, "boxcox_back_transform")
    /\ pc' = "restored"
    /\ UNCHANGED <<fn, data, times, monthly_cdfs, gamma_ds, settings, method, mode, result,
                   nearby_stn_ds, consulted>>

\* the caller applies boxcox_back_transform to data that no forward step produced;
\* these inputs are the arrays of whole numbers and missing values
BoxBackDirect ==
    /\ pc = "start"
    /\ \A i \in 1..Len(data.v) : data.v[i].d = 1
    /\ result' = Return(boxcox_back_transform(data, settings.exponent))
    /\ called' = Append(called, "boxcox_back_transform")
    /\ pc' = "back_only"
    /\ UNCHANGED <<fn, data, times, monthly_cdfs, gamma_ds, settings, method, mode, restored,
                   nearby_stn_ds, consulted>>

NextBox == BoxForward \/ BoxBack \/ BoxBackDirect

SpecBox == InitBox /\ [][NextBox]_vars

(***************************************************************************)
(* Forward transforms called on station data                               *)
(***************************************************************************)
InitForward ==
    \E n \in 1..MaxStations, T \in 1..MaxTimes :
      \E a \in Arrays2(n, T, ObsValues), tm \in TimeAxes(T) :
        \/ \E cdfs \in PooledCdfs(tm, FwdTables) :
              InitWith("normal_quantile_transform", [ndim |-> 2, v |-> a], tm, cdfs, <<>>,
                       Settings(TRUE, 1), "ecdf", "transform")
        \/ \E cdfs \in StationCdfs(n, tm, FwdTables) :
              InitWith("normal_quantile_transform", [ndim |-> 2, v |-> a], tm, cdfs, <<>>,
                       Settings(FALSE, 1), "ecdf", "transform")
        \/ \E gds \in GammaParams(n, tm) :
              InitWith("gamma_transform", [ndim |-> 2, v |-> a], tm, <<>>, gds,
                       Settings(TRUE, 1), "gamma_monthly", "transform")

\* the caller applies normal_quantile_transform to the data
NqtCall ==
    /\ pc = "start"
    /\ fn = "normal_quantile_transform"
    /\ result' = normal_quantile_transform(data, times, monthly_cdfs, settings)
    /\ called' = Append(called, fn)
    /\ pc' = "transformed"
    /\ UNCHANGED <<fn, data, times, monthly_cdfs, gamma_ds, settings, method, mode, restored,
                   nearby_stn_ds, consulted>>

\* the caller applies gamma_transform to the data
GammaCall ==
    /\ pc = "start"
    /\ fn = "gamma_transform"
    /\ result' = gamma_transform(data, times, settings, gamma_ds)
    /\ called' = Append(called, fn)
    /\ pc' = "transformed"
    /\ UNCHANGED <<fn, data, times, monthly_cdfs, gamma_ds, settings, method, mode, restored,
                   nearby_stn_ds, consulted>>

NextForward == NqtCall \/ GammaCall

SpecForward == InitForward /\ [][NextForward]_vars

(***************************************************************************)
(* Calls through the dispatcher                                            *)
(***************************************************************************)
\* the caller applies data_transformation with the method and the mode of the run
Dispatch ==
    /\ pc = "start"
    /\ \E did \in {data_transformation(data, method, settings, mode, times,
                                      monthly_cdfs, gamma_ds)} :
          /\ result' = did.outcome
          /\ called' = did.calls
    /\ pc' = "dispatched"
    /\ UNCHANGED <<fn, data, times, monthly_cdfs, gamma_ds, settings, method, mode, restored,
                   nearby_stn_ds, consulted>>

(***************************************************************************)
(* Inverse transforms called on z-scores                                   *)
(***************************************************************************)
\* tables of the inverse runs: empty, the one-row table of the observation 2, and the
\* table of the observations 1 and MaxValue
InvTables ==
    {EmptyTable, create_cdf_df(<<Whole(2)>>), create_cdf_df(<<Whole(1), Whole(MaxValue)>>)}

\* tables of the per-station inverse runs, where every station has its own: empty, and
\* the table of the observations 1 and MaxValue
InvStationTables == {EmptyTable, create_cdf_df(<<Whole(1), Whole(MaxValue)>>)}

\* shapes rows x cols x time of the gridded inputs
GridShapes ==
    {sh \in (1..MaxGrid) \X (1..MaxGrid) \X (1..MaxTimes) : sh[1] * sh[2] * sh[3] <= MaxCells}

InitInverse2D(f) ==
    \E n \in 1..MaxStations, T \in 1..MaxTimes :
      \E a \in Arrays2(n, T, ZValues), tm \in TimeAxes(T) :
        IF f = "gamma_back_transform"
        THEN \E gds \in GammaParams(n, tm) :
                InitWith(f, [ndim |-> 2, v |-> a], tm, <<>>, gds,
                         Settings(TRUE, 1), "gamma_monthly", "back_transform")
        ELSE \/ \E cdfs \in PooledCdfs(tm, InvTables) :
                   InitWith(f, [ndim |-> 2, v |-> a], tm, cdfs, <<>>,
                            Settings(TRUE, 1), "ecdf", "back_transform")
             \/ \E cdfs \in StationCdfs(n, tm, InvStationTables) :
                   InitWith(f, [ndim |-> 2, v |-> a], tm, cdfs, <<>>,
                            Settings(FALSE, 1), "ecdf", "back_transform")

InitInverse3D(f) ==
    \E sh \in GridShapes :
      \E a \in Arrays3(sh[1], sh[2], sh[3], ZValues), tm \in TimeAxes(sh[3]) :
        IF f = "gamma_back_transform"
        THEN \E gds \in GammaParams(sh[1] * sh[2], tm) :
                InitWith(f, [ndim |-> 3, v |-> a], tm, <<>>, gds,
                         Settings(TRUE, 1), "gamma_monthly", "back_transform")
        ELSE \/ \E cdfs \in PooledCdfs(tm, InvTables) :
                   InitWith(f, [ndim |-> 3, v |-> a], tm, cdfs, <<>>,
                            Settings(TRUE, 1), "ecdf", "back_transform")
             \/ \E cdfs \in StationCdfs(sh[1] * sh[2], tm, InvStationTables) :
                   InitWith(f, [ndim |-> 3, v |-> a], tm, cdfs, <<>>,
                            Settings(FALSE, 1), "ecdf", "back_transform")

\* inputs of 1 and of 4 dimensions: a series of z-scores, and a 1 x 1 x 1 x T array
InitInverseOther(f) ==
    \E T \in 1..MaxTimes : \E series \in [1..T -> ZValues], tm \in TimeAxes(T) :
      \E a \in {[ndim |-> 1, v |-> series], [ndim |-> 4, v |-> <<<<<<series>>>>>>]} :
        \E pooled \in BOOLEAN :
          IF f = "gamma_back_transform"
          THEN \E gds \in GammaParams(1, tm) :
                  InitWith(f, a, tm, <<>>, gds, Settings(pooled, 1),
                           "gamma_monthly", "back_transform")
          ELSE \E cdfs \in (IF pooled THEN PooledCdfs(tm, InvTables)
                            ELSE StationCdfs(1, tm, InvStationTables)) :
                  InitWith(f, a, tm, cdfs, <<>>, Settings(pooled, 1),
                           "ecdf", "back_transform")

InitInverse ==
    \E f \in {"inverse_normal_quantile_transform", "gamma_back_transform"} :
        InitInverse2D(f) \/ InitInverse3D(f) \/ InitInverseOther(f)

\* the caller applies inverse_normal_quantile_transform to the z-scores
InvCall ==
    /\ pc = "start"
    /\ fn = "inverse_normal_quantile_transform"
    /\ result' = inverse_normal_quantile_transform(data, times, monthly_cdfs, settings)
    /\ called' = Append(called, fn)
    /\ pc' = "back_only"
    /\ UNCHANGED <<fn, data, times, monthly_cdfs, gamma_ds, settings, method, mode, restored,
                   nearby_stn_ds, consulted>>

\* the caller applies gamma_back_transform to the z-scores
GammaBackCall ==
    /\ pc = "start"
    /\ fn = "gamma_back_transform"
    /\ result' = gamma_back_transform(data, times, settings, gamma_ds)
    /\ called' = Append(called, fn)
    /\ pc' = "back_only"
    /\ UNCHANGED <<fn, data, times, monthly_cdfs, gamma_ds, settings, method, mode, restored,
                   nearby_stn_ds, consulted>>

NextInverse == InvCall \/ GammaBackCall \/ Dispatch

SpecInverse == InitInverse /\ [][NextInverse]_vars

(***************************************************************************)
(* Quantile transform followed by its inverse                              *)
(***************************************************************************)
\* an amount just below the largest observation of the tables
NearTop == Num(MaxValue * 100000 - 1, 100000)

\* tables of the round trips: empty; the observations 1 and MaxValue; the same with a
\* tied pair between them; a table that starts below min_est_value; and one whose two
\* lowest values are closer to each other than the lowest is to zero
RoundTables ==
    {EmptyTable,
     create_cdf_df(<<Whole(1), Whole(MaxValue)>>),
     create_cdf_df(<<Whole(MaxValue - 1), Whole(MaxValue)>>),
     create_cdf_df(<<Whole(1), Whole(2), Whole(2), Whole(MaxValue)>>),
     create_cdf_df(<<Num(1, 200), Whole(1)>>)}

\* amounts of the round trips: missing, zero, one between the small table's minimum and
\* min_est_value, amounts inside the tables, one just below their top, one above them
RoundValues ==
    {NaN, Whole(0), Num(3, 400), Whole(2), Num(5, 2), NearTop, Whole(MaxValue + 1)}

\* shapes stations x time of the round trips
RoundShapes == {sh \in (1..MaxStations) \X (1..MaxTimes) : sh[1] * sh[2] <= MaxRoundCells}

InitRound ==
    \E sh \in RoundShapes :
      \E a \in Arrays2(sh[1], sh[2], RoundValues), tm \in TimeAxes(sh[2]) :
        \/ \E cdfs \in PooledCdfs(tm, RoundTables) :
              InitWith("round_trip", [ndim |-> 2, v |-> a], tm, cdfs, <<>>,
                       Settings(TRUE, 1), "ecdf", "transform")
        \/ \E cdfs \in StationCdfs(sh[1], tm, RoundTables) :
              InitWith("round_trip", [ndim |-> 2, v |-> a], tm, cdfs, <<>>,
                       Settings(FALSE, 1), "ecdf", "transform")

\* the caller transforms the data through the dispatcher
RoundForward ==
    /\ pc = "start"
    /\ fn = "round_trip"
    /\ \E did \in {data_transformation(data, method, settings, "transform", times,
                                      monthly_cdfs, gamma_ds)} :
          /\ result' = did.outcome
          /\ called' = called \o did.calls
    /\ pc' = "transformed"
    /\ UNCHANGED <<fn, data, times, monthly_cdfs, gamma_ds, settings, method, mode, restored,
                   nearby_stn_ds, consulted>>

\* the caller gives the transformed data back to the dispatcher, same tables and settings
RoundBack ==
    /\ pc = "transformed"
    /\ fn = "round_trip"
    /\ result.kind = "return"
    /\ \E did \in {data_transformation(result.value, method, settings, "back_transform",
                                      times, monthly_cdfs, gamma_ds)} :
          /\ restored' = did.outcome
          /\ called' = called \o did.calls
    /\ pc' = "restored"
    /\ UNCHANGED <<fn, data, times, monthly_cdfs, gamma_ds, settings, method, mode, result,
                   nearby_stn_ds, consulted>>

NextRound == RoundForward \/ RoundBack

SpecRound == InitRound /\ [][NextRound]_vars

(***************************************************************************)
(* The dispatcher on 2-D station data, every method and mode tag           *)
(***************************************************************************)
\* method tags: the three the dispatcher knows and one it does not
MethodTags == {"boxcox", "ecdf", "gamma_monthly", "other"}

\* mode tags: the two the dispatcher knows and one it does not
ModeTags == {"transform", "back_transform", "other"}

\* amounts given to the forward transforms: missing, zero, inside the tables, above them
DispatchObs == {NaN, Whole(0), Whole(2), Whole(MaxValue)}

\* the cells a 2-D input holds for a method and a mode
DispatchCells(mth, md, e) ==
    IF mth = "boxcox" /\ md = "transform" THEN {NaN, Whole(-1), Whole(0), Pow(Whole(2), e)}
    ELSE IF mth = "boxcox" THEN {NaN, Whole(-(e + 1)), Whole(0), Whole(e)}
    ELSE IF md = "back_transform" THEN ZValues
    ELSE DispatchObs

InitDispatch ==
    \E mth \in MethodTags, md \in ModeTags, n \in 1..MaxStations, T \in 1..MaxTimes :
      \E tm \in TimeAxes(T), e \in (IF mth = "boxcox" THEN 1..MaxExponent ELSE {1}) :
        \E a \in Arrays2(n, T, DispatchCells(mth, md, e)) :
          IF mth = "ecdf"
          THEN \/ \E cdfs \in PooledCdfs(tm, FwdTables) :
                     InitWith("data_transformation", [ndim |-> 2, v |-> a], tm, cdfs, <<>>,
                              Settings(TRUE, e), mth, md)
               \/ \E cdfs \in StationCdfs(n, tm, FwdTables) :
                     InitWith("data_transformation", [ndim |-> 2, v |-> a], tm, cdfs, <<>>,
                              Settings(FALSE, e), mth, md)
          ELSE IF mth = "gamma_monthly"
          THEN \E gds \in GammaParams(n, tm) :
                  InitWith("data_transformation", [ndim |-> 2, v |-> a], tm, <<>>, gds,
                           Settings(TRUE, e), mth, md)
          ELSE InitWith("data_transformation", [ndim |-> 2, v |-> a], tm, <<>>, <<>>,
                        Settings(TRUE, e), mth, md)

NextDispatch == Dispatch

SpecDispatch == InitDispatch /\ [][NextDispatch]_vars

(***************************************************************************)
(* Building tables from observations                                       *)
(***************************************************************************)
\* settings of the table builder: pooled, add_noise (default True), min_num_obs
TableSettings(pooled, add_noise, min_num_obs) ==
    [pooled |-> pooled, add_noise |-> add_noise, min_num_obs |-> min_num_obs]

\* settings.get('min_num_obs', 20)
MinNumObsDefault == 20

\* the observations of one month in the example of the specification
ExampleObs == <<Whole(0), Whole(0), Whole(2), Whole(4), Whole(4), Whole(6)>>

\* cells of the sequences handed to create_cdf_df: missing, negative, zero, positive
SeriesCells == {NaN, Whole(-1)} \cup {Whole(k) : k \in 0..MaxValue}

\* the sequences handed to create_cdf_df: all of length 0..MaxSeriesLen, and the example
SeriesInputs ==
    UNION {[1..len -> SeriesCells] : len \in 0..MaxSeriesLen} \cup {ExampleObs}

\* observations of the stations: missing, zero and two positive amounts, so that a
\* station can hold the same amount twice in a month
TableObs == {NaN, Whole(0), Whole(2), Whole(MaxValue)}

\* the draws of np.random.uniform for the cells of the data: one of NoiseSteps for
\* every positive cell when noise is added to per-station tables, none otherwise
NoiseDraws(a, sett) ==
    IF sett.pooled \/ ~sett.add_noise
    THEN {[s \in 1..Len(a.v) |-> [t \in 1..Len(a.v[s]) |-> Whole(0)]]}
    ELSE {nz \in [1..Len(a.v) -> [1..Len(a.v[1]) -> NoiseSteps]] :
             \A s \in 1..Len(a.v) : \A t \in 1..Len(a.v[s]) :
                 ~Gt(a.v[s][t], Whole(0)) => nz[s][t] = Whole(0)}

\* the caller builds one table from a sequence of observations
CreateCdf ==
    /\ pc = "start"
    /\ fn = "create_cdf_df"
    /\ result' = Return(create_cdf_df(data.v))
    /\ called' = Append(called, fn)
    /\ pc' = "built"
    /\ UNCHANGED <<fn, data, times, monthly_cdfs, gamma_ds, settings, method, mode, restored,
                   nearby_stn_ds, consulted>>

\* the caller builds the monthly tables of the station data; the noise is drawn by
\* the call
CalcMonthly ==
    /\ pc = "start"
    /\ fn = "calculate_monthly_cdfs"
    /\ \E nz \in NoiseDraws(data, settings) :
         \E out \in {calculate_monthly_cdfs(data, times, settings, nearby_stn_ds, nz)} :
            /\ result' = IF out.error = "" THEN Return(out.cdfs) ELSE Raise(out.error)
            /\ consulted' = out.consulted
    /\ called' = Append(called, fn)
    /\ pc' = "built"
    /\ UNCHANGED <<fn, data, times, monthly_cdfs, gamma_ds, settings, method, mode, restored,
                   nearby_stn_ds>>

\* the stations of a remediation run: enough for a ranking of six distinct neighbours
NumNearbyStations == 7

\* the neighbour ranking nearIndex_InStn_prcp: for every station the other stations,
\* nearest first, one more than the loop can read; by ascending or by descending index
Rankings(n) ==
    {[s \in 1..n |-> [k \in 1..(MaxNeighbours + 1) |-> ((s - 1 + k) % n) + 1]],
     [s \in 1..n |-> [k \in 1..(MaxNeighbours + 1) |-> ((s - 1 - k + n) % n) + 1]]}

\* the January observation of station s: missing, zero, or an amount that the
\* stations share in pairs
NearbyCell(s, kind) ==
    IF kind = "nan" THEN NaN ELSE IF kind = "zero" THEN Whole(0) ELSE Whole((s + 1) \div 2)

\* station data of a remediation run: one observation per station
NearbyArrays(n) ==
    {[s \in 1..n |-> <<NearbyCell(s, kinds[s])>>] : kinds \in [1..n -> {"nan", "zero", "pos"}]}

\* the thresholds min_obs of the remediation runs
MinObsChoices == {1, 2}

\* the tables handed to add_nearby_stations_to_cdfs are the per-station tables that
\* calculate_monthly_cdfs built from the data (lines 124-127)
InitNearby ==
    \E a \in NearbyArrays(NumNearbyStations), ranking \in Rankings(NumNearbyStations),
       min_obs \in MinObsChoices :
        /\ pc = "start"
        /\ fn = "add_nearby_stations_to_cdfs"
        /\ data = [ndim |-> 2, v |-> a]
        /\ times = <<1>>
        /\ monthly_cdfs = calculate_monthly_cdfs([ndim |-> 2, v |-> a], <<1>>,
                                                 TableSettings(FALSE, FALSE, min_obs),
                                                 NoNearby, <<>>).cdfs
        /\ gamma_ds = <<>>
        /\ settings = TableSettings(FALSE, FALSE, min_obs)
        /\ method = "ecdf"
        /\ mode = "transform"
        /\ result = None
        /\ restored = None
        /\ called = <<>>
        /\ nearby_stn_ds = ranking
        /\ consulted = <<>>


InitTables ==
    \/ \E series \in SeriesInputs :
          InitWith("create_cdf_df", [ndim |-> 1, v |-> series], <<>>, <<>>, <<>>,
                   TableSettings(TRUE, TRUE, MinNumObsDefault), "ecdf", "transform")
    \/ \E n \in 1..MaxStations, T \in 1..MaxTimes, pooled \in BOOLEAN, add_noise \in BOOLEAN :
         \E a \in Arrays2(n, T, TableObs), tm \in TimeAxes(T) :
            InitWith("calculate_monthly_cdfs", [ndim |-> 2, v |-> a], tm, <<>>, <<>>,
                     TableSettings(pooled, add_noise, MinNumObsDefault), "ecdf", "transform")
    \/ InitNearby

\* the call of line 134; the mapping of the caller is changed in place
AddNearby ==
    /\ pc = "start"
    /\ fn = "add_nearby_stations_to_cdfs"
    /\ \E out \in {add_nearby_stations_to_cdfs(monthly_cdfs, data, nearby_stn_ds,
                                                settings.min_num_obs)} :
          /\ result' = IF out.error = "" THEN Return(out.cdfs) ELSE Raise(out.error)
          /\ monthly_cdfs' = out.cdfs
          /\ consulted' = out.consulted
    /\ called' = Append(called, fn)
    /\ pc' = "built"
    /\ UNCHANGED <<fn, data, times, gamma_ds, settings, method, mode, restored, nearby_stn_ds>>

NextTables == CreateCdf \/ CalcMonthly \/ AddNearby

SpecTables == InitTables /\ [][NextTables]_vars

(***************************************************************************)
(* Properties                                                              *)
(***************************************************************************)


\* ---- shared vocabulary of the properties ----

\* station s of the 2-D input has no value at all
AllMissing(s) == \A t \in 1..Len(times) : isnan(data.v[s][t])

\* the table the quantile transform uses for station (or grid cell) c and timestamp t
TableFor(c, t) ==
    IF settings.pooled THEN monthly_cdfs[times[t]] ELSE monthly_cdfs[c][times[t]]

\* the call returned a 2-D array of the given numbers of rows and columns
Returned2D(r, nrows, ncols) ==
    /\ r.kind = "return"
    /\ r.value.ndim = 2
    /\ Len(r.value.v) = nrows
    /\ \A i \in 1..nrows : Len(r.value.v[i]) = ncols

\* max(x, 0) of a number
Max0(x) == IF Lt(x, Whole(0)) THEN Whole(0) ELSE x

\* C3: in normal_quantile_transform (pooled or per-station) a station whose every value
\* is missing has every element of its output column missing, not min_z_value, and no
\* station that has a value gets a missing element: the exclusion step overwrites the
\* all-missing stations' columns and no others.
C3_AllMissingStationStaysMissing ==
    (pc = "transformed" /\ fn = "normal_quantile_transform") =>
        /\ Returned2D(result, Len(times), Len(data.v))
        /\ \A s \in 1..Len(data.v) : \A t \in 1..Len(times) :
              isnan(result.value.v[t][s]) <=> AllMissing(s)

\* C3 witness: per-station tables, an all-missing station next to a station with a
\* missing and a positive value, and the transform has returned
C3_Witness ==
    /\ pc = "transformed" /\ fn = "normal_quantile_transform" /\ ~settings.pooled
    /\ result.kind = "return"
    /\ Len(data.v) = 2 /\ Len(times) = 2
    /\ AllMissing(1) /\ ~AllMissing(2)
    /\ isnan(data.v[2][1]) /\ Gt(data.v[2][2], Whole(0))
    /\ isnan(result.value.v[1][1]) /\ result.value.v[1][2] = settings.min_z_value

\* the input at station s, timestamp t gets no z-score from a table: it is missing or
\* non-positive, its table is absent or empty, or it lies outside the table's values
NoQuantile(s, t) ==
    LET x == data.v[s][t]
        cdf == TableFor(s, t)
    IN \/ isnan(x)
       \/ Le(x, Whole(0))
       \/ ~Usable(cdf)
       \/ Lt(x, cdf.Value[1])
       \/ Gt(x, cdf.Value[Len(cdf.Value)])

\* C4: in normal_quantile_transform, for every station with at least one non-missing
\* value, an output element whose input is missing, non-positive or outside the value
\* range of its stratum's table, or whose table is empty, equals min_z_value exactly.
C4_FloorIsMinZ ==
    (pc = "transformed" /\ fn = "normal_quantile_transform") =>
        /\ result.kind = "return"
        /\ \A s \in 1..Len(data.v) : \A t \in 1..Len(times) :
              (~AllMissing(s) /\ NoQuantile(s, t)) =>
                  result.value.v[t][s] = settings.min_z_value

\* C4 witness: one station with a value below its table and a value above it, both
\* floored, next to a station whose in-range value got a quantile
C4_Witness ==
    /\ pc = "transformed" /\ fn = "normal_quantile_transform"
    /\ Len(data.v) = 2 /\ Len(times) = 2
    /\ Usable(TableFor(1, 1)) /\ Usable(TableFor(1, 2)) /\ Usable(TableFor(2, 1))
    /\ Gt(data.v[1][1], Whole(0)) /\ Lt(data.v[1][1], TableFor(1, 1).Value[1])
    /\ Gt(data.v[1][2], TableFor(1, 2).Value[Len(TableFor(1, 2).Value)])
    /\ result.value.v[1][1] = settings.min_z_value
    /\ result.value.v[2][1] = settings.min_z_value
    /\ ~NoQuantile(2, 1) /\ result.value.v[1][2].t = "ppf"

\* C9 (as claimed): gamma_transform outputs min_z_value for the missing and the
\* non-positive values of a station that has valid data, and outputs missing (NaN), not
\* min_z_value, for a station whose values are all missing.
C9_GammaFillPolicy ==
    (pc = "transformed" /\ fn = "gamma_transform") =>
        /\ result.kind = "return"
        /\ \A s \in 1..Len(data.v) : \A t \in 1..Len(times) :
              /\ (~AllMissing(s) /\ ~Gt(data.v[s][t], Whole(0))) =>
                     result.value.v[t][s] = settings.min_z_value
              /\ AllMissing(s) => isnan(result.value.v[t][s])

\* C8: for every exponent e > 0 and every (non-missing) input x,
\* boxcox_back_transform(boxcox_transform(x, e), e) = max(x, 0); the forward output is
\* never below -e; and the inverse maps any input below -e to 0.
C8_BoxcoxRoundTrip ==
    LET e == settings.exponent
    IN /\ (fn = "boxcox_transform" /\ pc \in {"transformed", "restored"}) =>
             \A i \in 1..Len(data.v) :
                 IsNum(data.v[i]) => Le(Whole(-e), result.value.v[i])
       /\ (fn = "boxcox_transform" /\ pc = "restored") =>
             /\ Len(restored.value.v) = Len(data.v)
             /\ \A i \in 1..Len(data.v) :
                    IsNum(data.v[i]) => restored.value.v[i] = Max0(data.v[i])
       /\ (fn = "boxcox_transform" /\ pc = "back_only") =>
             \A i \in 1..Len(data.v) :
                 Lt(data.v[i], Whole(-e)) => result.value.v[i] = Whole(0)

\* C8 witness: a round trip, under the largest exponent, of an array holding a negative
\* input (restored as 0) and an input above 1 (restored as itself)
C8_Witness ==
    /\ fn = "boxcox_transform" /\ pc = "restored"
    /\ settings.exponent = MaxExponent
    /\ \E i, j \in 1..Len(data.v) :
          /\ Lt(data.v[i], Whole(0)) /\ restored.value.v[i] = Whole(0)
          /\ Lt(Whole(1), data.v[j]) /\ restored.value.v[j] = data.v[j]

\* ---- inverse transforms ----

\* an amount the inverse may return by the claim: a number that is 0 or >= min_est_value
ZeroOrFloor(x) == IsNum(x) /\ (x = Whole(0) \/ Le(settings.min_est_value, x))

\* the back-transform of z-score z under table cdf: through the table when it has rows,
\* zero when it is absent or empty
BackOf(z, cdf) ==
    IF Usable(cdf) THEN inv_cell(cdf, z, settings.min_est_value) ELSE Whole(0)

\* the column of the time x column frame that holds grid cell [r, c]
GridColumn(r, c) == (r - 1) * Width(data.v) + c

\* what an exception of the model tells its reader: UnboundLocalError names a local
\* variable that has no value, ValueError the shapes that could not be broadcast,
\* IndexError a position out of range; none names the number of dimensions of the input
NamesDimensionality(e) == e \notin {"UnboundLocalError", "ValueError", "IndexError"}

\* C5 (as claimed): called on any 2-D or 3-D z-score input (missing z-scores included),
\* pooled or per-station, inverse_normal_quantile_transform returns an array whose every
\* element is exactly 0 or >= min_est_value, never NaN; where the stratum's table is
\* empty the elements are 0.
C5_InverseZeroOrFloor ==
    (pc = "back_only" /\ fn = "inverse_normal_quantile_transform" /\ data.ndim \in {2, 3}) =>
        /\ result.kind = "return"
        /\ data.ndim = 2 =>
              \A s \in 1..Len(data.v) : \A t \in 1..Len(times) :
                  /\ ZeroOrFloor(result.value.v[t][s])
                  /\ ~Usable(TableFor(s, t)) => result.value.v[t][s] = Whole(0)
        /\ data.ndim = 3 =>
              \A r \in 1..Len(data.v) : \A c \in 1..Width(data.v) : \A t \in 1..Len(times) :
                  /\ ZeroOrFloor(result.value.v[r][c][t])
                  /\ ~Usable(TableFor(GridColumn(r, c), t)) =>
                         result.value.v[r][c][t] = Whole(0)

\* C6 (as claimed): for a 3-D input rows x cols x time, inverse_normal_quantile_transform
\* and the dispatcher's ecdf back_transform return an array of exactly the input's shape
\* whose element [r, c, t] is the back-transform of input [r, c, t]; the dispatcher does
\* not transpose it.
C6_GridShapePreserved ==
    (pc \in {"back_only", "dispatched"} /\ fn = "inverse_normal_quantile_transform"
        /\ data.ndim = 3) =>
        /\ result.kind = "return"
        /\ result.value.ndim = 3
        /\ Len(result.value.v) = Len(data.v)
        /\ \A r \in 1..Len(data.v) :
              /\ Len(result.value.v[r]) = Len(data.v[r])
              /\ \A c \in 1..Len(data.v[r]) :
                    /\ Len(result.value.v[r][c]) = Len(data.v[r][c])
                    /\ \A t \in 1..Len(times) :
                          result.value.v[r][c][t] =
                              BackOf(data.v[r][c][t], TableFor(GridColumn(r, c), t))

\* C10 (as claimed): given an input whose number of dimensions is neither 2 nor 3,
\* inverse_normal_quantile_transform and gamma_back_transform return no array and fail
\* with an error that identifies the unsupported dimensionality.
C10_BadNdimDescriptiveError ==
    (pc = "back_only" /\ data.ndim \notin {2, 3}) =>
        /\ result.kind = "raise"
        /\ NamesDimensionality(result.error)


\* ---- round trip of the quantile transform ----

\* the amount at station s, timestamp t is positive, lies strictly between the minimum
\* and the maximum value of its stratum's table, and is not below min_est_value
StrictlyInside(s, t) ==
    LET x == data.v[s][t]
        cdf == TableFor(s, t)
    IN /\ Usable(cdf)
       /\ Gt(x, Whole(0))
       /\ Lt(cdf.Value[1], x) /\ Lt(x, cdf.Value[Len(cdf.Value)])
       /\ Le(settings.min_est_value, x)

\* the cumulative probability the forward transform interpolates for the amount at
\* station s, timestamp t, before it is clipped
ProbOf(s, t) == cdf_interp(TableFor(s, t), data.v[s][t])

KnownTags == method \in {"boxcox", "ecdf", "gamma_monthly"} /\ mode \in {"transform", "back_transform"}

\* the transform of the input element at station s, timestamp t under the method and
\* the mode of the run
TransformOf(s, t) ==
    LET x == data.v[s][t]
        scale == gamma_ds[s][times[t]]
    IN IF method = "boxcox"
       THEN (IF mode = "transform" THEN boxcox_cell(x, settings.exponent)
             ELSE boxcox_back_cell(x, settings.exponent))
       ELSE IF method = "ecdf"
       THEN (IF mode = "back_transform" THEN BackOf(x, TableFor(s, t))
             ELSE IF AllMissing(s) THEN NaN
             ELSE IF NoQuantile(s, t) THEN settings.min_z_value
             ELSE norm_ppf(clip(cdf_interp(TableFor(s, t), x))))
       ELSE (IF mode = "back_transform"
             THEN gamma_back_cell(x, scale, settings.min_est_value, FALSE)
             ELSE IF Gt(x, Whole(0))
             THEN nan_to_num(norm_ppf(gamma_cdf(x, scale)), settings.min_z_value)
             ELSE settings.min_z_value)

\* C1: whenever the method tag is not 'boxcox', 'ecdf' or 'gamma_monthly' (whatever the
\* mode), or the method is known and the mode tag is not 'transform' or
\* 'back_transform', data_transformation ends the process by sys.exit, returns no data
\* and has invoked no component transform.
C1_UnknownTagExits ==
    (pc = "dispatched" /\ fn = "data_transformation" /\ ~KnownTags) =>
        /\ result = SysExit
        /\ called = <<>>

\* C1 witness: the dispatcher has exited on a known method with an unknown mode
C1_Witness ==
    /\ pc = "dispatched" /\ fn = "data_transformation"
    /\ method = "gamma_monthly" /\ mode = "other"
    /\ result.kind = "exit" /\ called = <<>>

\* C2 (as claimed): for every 2-D input stations x time, every known method and every
\* known mode, data_transformation returns an array stations x time whose element
\* [s, t] is the transform of input element [s, t].
C2_SameShapeSameCell ==
    (pc = "dispatched" /\ fn = "data_transformation" /\ KnownTags /\ data.ndim = 2) =>
        /\ Returned2D(result, Len(data.v), Len(times))
        /\ \A s \in 1..Len(data.v) : \A t \in 1..Len(times) :
              result.value.v[s][t] = TransformOf(s, t)


\* ---- the calls on which the code departs from the claims ----

\* C9: gamma_transform has returned min_z_value for a station without any value
C9_AllMissingGetsFloor ==
    /\ pc = "transformed" /\ fn = "gamma_transform" /\ result.kind = "return"
    /\ Len(data.v) = 2 /\ AllMissing(1) /\ ~AllMissing(2)
    /\ \A t \in 1..Len(times) : result.value.v[t][1] = settings.min_z_value

\* C5: pooled, one station, two timestamps in one month whose table is empty: the
\* inverse has raised ValueError instead of returning zeros
C5_EmptyTableRaises ==
    /\ pc = "back_only" /\ fn = "inverse_normal_quantile_transform"
    /\ data.ndim = 2 /\ settings.pooled
    /\ Len(data.v) = 1 /\ Len(times) = 2 /\ times[1] = times[2]
    /\ ~monthly_cdfs[times[1]].isNone /\ ~Usable(monthly_cdfs[times[1]])
    /\ result = Raise("ValueError")

\* C6: pooled, a 1 x 1 grid, two timestamps in one month whose table is empty: the
\* inverse has raised ValueError and no array of the input's shape came back
C6_GridEmptyTableRaises ==
    /\ pc = "back_only" /\ fn = "inverse_normal_quantile_transform"
    /\ data.ndim = 3 /\ settings.pooled
    /\ Len(data.v) = 1 /\ Width(data.v) = 1 /\ Len(times) = 2 /\ times[1] = times[2]
    /\ ~Usable(monthly_cdfs[times[1]])
    /\ result = Raise("ValueError")

\* C10: gamma_back_transform, given a 1-D series, has raised UnboundLocalError
C10_SeriesRaisesUnboundLocal ==
    /\ pc = "back_only" /\ fn = "gamma_back_transform"
    /\ data.ndim = 1
    /\ result = Raise("UnboundLocalError")

\* C2: the dispatcher's pooled ecdf back_transform of a 1 x 2 input whose month has an
\* empty table has passed on the ValueError of the inverse
C2_BackTransformRaises ==
    /\ pc = "dispatched" /\ fn = "data_transformation"
    /\ method = "ecdf" /\ mode = "back_transform" /\ settings.pooled
    /\ Len(data.v) = 1 /\ Len(times) = 2 /\ times[1] = times[2]
    /\ ~Usable(monthly_cdfs[times[1]])
    /\ called = <<"inverse_normal_quantile_transform">>
    /\ result = Raise("ValueError")


\* ---- the table builder ----

\* how often x occurs in the sequence seq
Count(seq, x) == Cardinality({k \in 1..Len(seq) : seq[k] = x})

\* the strictly positive, non-missing observations of a sequence
Positive(obs) == SelectSeq(obs, LAMBDA x : Gt(x, Whole(0)))

\* tab is the table of the observations obs as claimed: its values are the positive
\* observations, each as often as observed, in ascending order, and its probability at
\* position k is k/n; the probabilities are in (0, 1] and end at 1
IsCdfOf(tab, obs) ==
    LET n == Len(Positive(obs))
    IN /\ ~tab.isNone
       /\ Len(tab.Value) = n /\ Len(tab.CDF) = n
       /\ \A k \in 1..n :
             /\ tab.CDF[k] = Num(k, n)
             /\ Gt(tab.CDF[k], Whole(0)) /\ Le(tab.CDF[k], Whole(1))
             /\ Count(tab.Value, tab.Value[k]) = Count(Positive(obs), tab.Value[k])
       /\ \A k \in 1..(n - 1) :
             Le(tab.Value[k], tab.Value[k + 1]) /\ Le(tab.CDF[k], tab.CDF[k + 1])
       /\ n > 0 => tab.CDF[n] = Whole(1)

\* tab holds the observations obs after noise: as many rows as positive observations,
\* values in ascending order and each within noise_level of a positive observation,
\* and the probabilities k/n, each once, in whatever order the sort left them
IsNoisedCdfOf(tab, obs) ==
    LET n == Len(Positive(obs))
    IN /\ ~tab.isNone
       /\ Len(tab.Value) = n /\ Len(tab.CDF) = n
       /\ \A k \in 1..n :
             /\ Count(tab.CDF, Num(k, n)) = 1
             /\ \E j \in 1..n :
                   /\ Le(Sub(Positive(obs)[j], NoiseLevel), tab.Value[k])
                   /\ Le(tab.Value[k], Add(Positive(obs)[j], NoiseLevel))
       /\ \A k \in 1..(n - 1) : Le(tab.Value[k], tab.Value[k + 1])

\* the observations of a stratum of the run: a month (pooled) or a station and a month
StratumObs(s, month) ==
    IF settings.pooled THEN MonthFlat(data, times, month)
    ELSE MonthSeries(data, times, s, month)

\* the table calculate_monthly_cdfs returned for a stratum
StratumTable(s, month) ==
    IF settings.pooled THEN result.value[month] ELSE result.value[s][month]

StrictlyIncreasing(tab) ==
    \A k \in 1..(Len(tab.Value) - 1) : Lt(tab.Value[k], tab.Value[k + 1])

\* the values of a table never decrease; rows of equal value are allowed
NonDecreasing(tab) ==
    \A k \in 1..(Len(tab.Value) - 1) : Le(tab.Value[k], tab.Value[k + 1])

\* the neighbour pooling has returned its mapping
Remediated == pc = "built" /\ fn = "add_nearby_stations_to_cdfs" /\ result.kind = "return"

\* station s was remediated in month i: its table was rebuilt from a pool
Rebuilt(s, i) == consulted[s][i] # <<>>

\* the observations of station s in month i
OwnObs(s, i) == MonthSeries(data, times, s, i)

\* the observations of the first k neighbours station s consulted in month i
RECURSIVE NeighbourObs(_, _, _)
NeighbourObs(s, i, k) ==
    IF k = 0 THEN <<>>
    ELSE NeighbourObs(s, i, k - 1) \o OwnObs(consulted[s][i][k].stn, i)

\* the own observations of station s and of every neighbour it consulted in month i
PooledObs(s, i) == OwnObs(s, i) \o NeighbourObs(s, i, Len(consulted[s][i]))

\* C12 (as claimed): every table produced by the builder (create_cdf_df directly,
\* calculate_monthly_cdfs in pooled mode, the tables add_nearby_stations_to_cdfs
\* rebuilds from a pool) has strictly increasing values: no two rows carry the same
\* value.
C12_ValuesStrictlyIncreasing ==
    /\ (pc = "built" /\ fn = "create_cdf_df") => StrictlyIncreasing(result.value)
    /\ (pc = "built" /\ fn = "calculate_monthly_cdfs" /\ settings.pooled
          /\ result.kind = "return") =>
          \A month \in 1..NumMonths : StrictlyIncreasing(result.value[month])
    /\ Remediated =>
          \A s \in 1..Len(data.v) : \A i \in 1..NumMonths :
              Rebuilt(s, i) => StrictlyIncreasing(result.value[s][i])

\* C12 (amended): every table produced by the builder has non-decreasing values; an
\* amount observed more than once gives as many rows of the same value.
C12_ValuesNonDecreasing ==
    /\ (pc = "built" /\ fn = "create_cdf_df") => NonDecreasing(result.value)
    /\ (pc = "built" /\ fn = "calculate_monthly_cdfs" /\ settings.pooled
          /\ result.kind = "return") =>
          \A month \in 1..NumMonths : NonDecreasing(result.value[month])
    /\ Remediated =>
          \A s \in 1..Len(data.v) : \A i \in 1..NumMonths :
              Rebuilt(s, i) => NonDecreasing(result.value[s][i])

\* C12 witness: a table rebuilt from the pool of a station and a neighbour that
\* observed the same amount holds that amount in two rows
C12_Witness ==
    /\ Remediated
    /\ \E s \in 1..Len(data.v) : \E i \in 1..NumMonths :
          /\ Rebuilt(s, i)
          /\ IsCdfOf(result.value[s][i], PooledObs(s, i))
          /\ \E k \in 1..(Len(result.value[s][i].Value) - 1) :
                result.value[s][i].Value[k] = result.value[s][i].Value[k + 1]

\* the table of station s and month i as built from the station's own observations
OwnTable(s, i) == create_cdf_df(OwnObs(s, i))

\* the loop of station s and month i read its neighbours in ranking order, at most
\* MaxNeighbours of them, and went on only while the pooled count was below min_obs
LoopAsClaimed(s, i) ==
    LET log == consulted[s][i]
        min_obs == settings.min_num_obs
    IN /\ Len(log) \in 1..MaxNeighbours
       /\ \A k \in 1..Len(log) : log[k].stn = nearby_stn_ds[s][k]
       /\ \A k \in 1..(Len(log) - 1) : log[k].num_obs < min_obs
       /\ log[Len(log)].num_obs >= min_obs \/ Len(log) = MaxNeighbours
       /\ ~result.value[s][i].isNone
       /\ Len(result.value[s][i].Value) = log[Len(log)].num_obs

\* C13: in add_nearby_stations_to_cdfs, for every month and every station with a
\* non-missing value, a table of at least min_obs rows is left unchanged; otherwise
\* the neighbours are read in ranking order, one per iteration, until the pooled
\* count reaches min_obs or 5 neighbours have been read.  The call returns, no sixth
\* neighbour is read, the table rebuilt from a pool still below min_obs is stored
\* without an error, and a station whose values are all missing keeps its tables.
C13_NeighbourLoopBounded ==
    (pc = "built" /\ fn = "add_nearby_stations_to_cdfs") =>
        /\ result.kind = "return"
        /\ \A s \in 1..Len(data.v) : \A i \in 1..NumMonths :
              IF AllMissing(s) \/ Len(OwnTable(s, i).Value) >= settings.min_num_obs
              THEN ~Rebuilt(s, i) /\ result.value[s][i] = OwnTable(s, i)
              ELSE LoopAsClaimed(s, i)

\* C13 witness: in one run a station read 5 neighbours and its table, still below
\* min_obs, was stored; another stopped before the fifth neighbour with min_obs
\* reached; a third kept its table of min_obs rows; a fourth has no value at all
C13_Witness ==
    /\ Remediated
    /\ \E s \in 1..Len(data.v) : \E i \in 1..NumMonths :
          /\ Len(consulted[s][i]) = MaxNeighbours
          /\ Len(result.value[s][i].Value) < settings.min_num_obs
    /\ \E s \in 1..Len(data.v) : \E i \in 1..NumMonths :
          /\ Len(consulted[s][i]) \in 1..(MaxNeighbours - 1)
          /\ Len(result.value[s][i].Value) >= settings.min_num_obs
    /\ \E s \in 1..Len(data.v) : \E i \in 1..NumMonths :
          /\ ~Rebuilt(s, i) /\ ~AllMissing(s)
          /\ Len(result.value[s][i].Value) >= settings.min_num_obs
    /\ \E s \in 1..Len(data.v) : AllMissing(s) /\ result.value[s] = [i \in 1..NumMonths |-> EmptyTable]

\* C14: after add_nearby_stations_to_cdfs the rebuilt table of a sparse station for a
\* month holds exactly the station's own positive observations and the own positive
\* observations of the neighbours it consulted, whatever the order of processing.
C14_PoolOfOwnObservations ==
    Remediated =>
        \A s \in 1..Len(data.v) : \A i \in 1..NumMonths :
            Rebuilt(s, i) => IsCdfOf(result.value[s][i], PooledObs(s, i))

\* a neighbour that station s read in month i had been rebuilt before, and the table
\* of s holds an amount that neither s nor any neighbour it read has observed
C14_ThirdStationValues ==
    /\ Remediated
    /\ \E s \in 1..Len(data.v) : \E i \in 1..NumMonths :
          /\ Rebuilt(s, i)
          /\ \E k \in 1..Len(consulted[s][i]) :
                consulted[s][i][k].stn < s /\ Rebuilt(consulted[s][i][k].stn, i)
          /\ \E k \in 1..Len(result.value[s][i].Value) :
                Count(PooledObs(s, i), result.value[s][i].Value[k]) = 0


\* ---- zero through the quantile transform and back ----

\* the observation of station s at timestamp t is zero, negative or missing, the
\* station has some valid data and the table of its stratum has rows
FlooredCell(s, t) ==
    /\ ~AllMissing(s)
    /\ Usable(TableFor(s, t))
    /\ (isnan(data.v[s][t]) \/ ~Gt(data.v[s][t], Whole(0)))

\* C15: zero round-trips to zero in the ecdf pipeline: for a station with some valid
\* data, an observation that is zero, negative or missing gets min_z_value from
\* normal_quantile_transform and is reconstructed as exactly 0 by
\* inverse_normal_quantile_transform with the same non-empty table and default
\* settings, for every table.
C15_ZeroRoundTripsToZero ==
    (pc = "restored" /\ fn = "round_trip" /\ restored.kind = "return") =>
        \A s \in 1..Len(data.v) : \A t \in 1..Len(times) :
            FlooredCell(s, t) =>
                /\ result.value.v[s][t] = settings.min_z_value
                /\ restored.value.v[s][t] = Whole(0)

\* a zero observation got min_z_value and came back as an amount of at least
\* min_est_value: the extrapolation below the lowest probability of the table
C15_ZeroComesBackPositive ==
    /\ pc = "restored" /\ fn = "round_trip" /\ restored.kind = "return"
    /\ \E s \in 1..Len(data.v) : \E t \in 1..Len(times) :
          /\ FlooredCell(s, t)
          /\ data.v[s][t] = Whole(0)
          /\ result.value.v[s][t] = settings.min_z_value
          /\ Le(settings.min_est_value, restored.value.v[s][t])

====
